---- MODULE Spec2Model ----
(***************************************************************************)
(* Three boto3 provisioning scripts (infrawithNAT.py, infraLatest.py,      *)
(* infracreationWithALB.py) run against one cloud account.  The account    *)
(* (variable aws) is the provider's state; a run of a script is a          *)
(* sequential program whose position is (pc, phase) and whose local        *)
(* variables are ctx.  Every provider call is recorded in log with the     *)
(* identifiers it was given and the provider's answer.                     *)
(***************************************************************************)
EXTENDS Integers, Sequences, FiniteSets, TLC

VARIABLES
    script,    \* which script this account's operator runs
    aws,       \* provider state: every resource of the account/region
    run,       \* number of the current run of main()
    pc,        \* index of the current statement of main()
    phase,     \* position inside a function that blocks on a waiter
    status,    \* "running", "done", "failed" (exception), "exited" (sys.exit)
    ctx,       \* local variables of main(): identifiers bound so far
    log,       \* provider calls issued by this run, in order
    wait,      \* resource the blocking waiter polls, and polls made so far
    exc,       \* exception that ended the run ("" while none)
    pem,       \* TRUE when this run wrote the private key file
    faults,    \* provider calls that failed for an unrelated reason so far
    start,     \* provider state when the current run started
    prev       \* status and bindings of the previous run

vars == <<script, aws, run, pc, phase, status, ctx, log, wait, exc, pem, faults, start, prev>>

-----------------------------------------------------------------------------
(* Bounds of the model *)

MaxRuns == 2        \* runs of main() per behaviour
MaxFaults == 1      \* provider calls that fail with an unrelated error code
WaitBudget == 2     \* polls a waiter makes before it gives up
VpcLimit == 4       \* the account's VPC quota

-----------------------------------------------------------------------------
(* Identifiers, CIDR blocks, zones *)

NoId == 0           \* a local variable that has not been bound
NA == -1            \* the call takes no such parameter

OPEN_CIDR == <<0, 0, 0, 0, 0>>          \* 0.0.0.0/0
NoCidr == <<0, 0, 0, 0, 32>>
FOREIGN_CIDR == <<172, 31, 0, 0, 16>>   \* default-VPC style block

Octets(len) == IF len >= 24 THEN 3 ELSE IF len >= 16 THEN 2 ELSE IF len >= 8 THEN 1 ELSE 0

\* block sub lies inside block sup (prefix lengths are multiples of 8)
Within(sub, sup) ==
    /\ sub[5] >= sup[5]
    /\ \A i \in 1..Octets(sup[5]) : sub[i] = sup[i]

Overlap(c1, c2) == Within(c1, c2) \/ Within(c2, c1)

Scripts == {"infrawithNAT", "infraLatest", "infracreationWithALB"}

REGION == "eu-central-1"

AllZones == <<REGION \o "a", REGION \o "b", REGION \o "c">>

RangeOf(seq) == {seq[i] : i \in 1..Len(seq)}

Min(a, b) == IF a < b THEN a ELSE b

\* the identifiers a list-valued local variable passes to a call
IdsOf(seq) == RangeOf(seq)

-----------------------------------------------------------------------------
(* Configuration blocks of the three scripts *)

PROJECT(s) ==
    CASE s = "infrawithNAT" -> "vijay-fullstack-nat"
      [] s = "infraLatest" -> "vijay-new-43-backend-project"
      [] OTHER -> "vijay-new-3-backend-project"

VPC_CIDR(s) ==
    CASE s = "infrawithNAT" -> <<10, 201, 0, 0, 16>>
      [] s = "infraLatest" -> <<10, 102, 0, 0, 16>>
      [] OTHER -> <<10, 101, 0, 0, 16>>

PUBLIC_SUBNET_CIDRS(s) ==
    CASE s = "infrawithNAT" -> << <<10, 201, 1, 0, 24>>, <<10, 201, 2, 0, 24>> >>
      [] s = "infraLatest" -> << <<10, 102, 1, 0, 24>>, <<10, 102, 2, 0, 24>> >>
      [] OTHER -> << <<10, 101, 1, 0, 24>>, <<10, 101, 2, 0, 24>> >>

PRIVATE_SUBNET_CIDRS == << <<10, 201, 101, 0, 24>>, <<10, 201, 102, 0, 24>> >>

AMI_ID(s) ==
    CASE s = "infrawithNAT" -> "ami-04e601abe3e1a910f"
      [] s = "infraLatest" -> "ami-04e601abe3e1a910f"
      [] OTHER -> "ami-004e960cde33f9146"

INSTANCE_TYPE(s) ==
    CASE s = "infrawithNAT" -> "t3.medium"
      [] s = "infraLatest" -> "t2.micro"
      [] OTHER -> "t2.micro"

KEY_NAME(s) == PROJECT(s) \o "-key"
LAUNCH_TEMPLATE_NAME(s) == PROJECT(s) \o "-lt"
ALB_NAME(s) == PROJECT(s) \o "-alb"
TG_NAME(s) == PROJECT(s) \o "-tg"
ASG_NAME(s) == PROJECT(s) \o "-asg"

-----------------------------------------------------------------------------
(* The provider: resources of the account and the rules of its API.        *)
(* Each P_* operator is the state after a call the provider accepted; each *)
(* Ok_* operator says whether the provider accepts the call, Err_* the     *)
(* error code it answers otherwise.                                        *)

VpcIds(s) == {s.vpcs[i].id : i \in 1..Len(s.vpcs)}
VpcRec(s, id) == s.vpcs[CHOOSE i \in 1..Len(s.vpcs) : s.vpcs[i].id = id]
VpcState(s, id) == IF id \in VpcIds(s) THEN VpcRec(s, id).state ELSE "absent"
Ids(set) == {x.id : x \in set}
Rec(set, id) == CHOOSE x \in set : x.id = id
NatState(s, id) == IF id \in Ids(s.nats) THEN Rec(s.nats, id).state ELSE "absent"
SubnetVpc(s, id) == IF id \in Ids(s.subnets) THEN Rec(s.subnets, id).vpc ELSE NoId

\* ec2.create_vpc
Ok_create_vpc(s) == Len(s.vpcs) < VpcLimit
P_create_vpc(s, cidr) ==
    [s EXCEPT !.next = @ + 1,
              !.vpcs = Append(@, [id |-> s.next, isDefault |-> FALSE,
                                  state |-> "pending", cidr |-> cidr, name |-> ""])]

\* vpc.create_tags (the Name tag of a VPC is the only tag kept)
P_tag_vpc(s, id, name) ==
    [s EXCEPT !.vpcs = [i \in 1..Len(@) |->
        IF @[i].id = id THEN [@[i] EXCEPT !.name = name] ELSE @[i]]]

\* ec2.create_internet_gateway / attach
P_create_internet_gateway(s) ==
    [s EXCEPT !.next = @ + 1, !.igws = @ \cup {[id |-> s.next, vpc |-> NoId]}]
Ok_attach(s, igw, vpc) ==
    /\ igw \in Ids(s.igws)
    /\ vpc \in VpcIds(s)
    /\ Rec(s.igws, igw).vpc = NoId
    /\ \A g \in s.igws : g.vpc # vpc
Err_attach(s, igw, vpc) ==
    IF igw \in Ids(s.igws) /\ vpc \in VpcIds(s)
    THEN "Resource.AlreadyAssociated" ELSE "InvalidID.NotFound"
P_attach(s, igw, vpc) ==
    [s EXCEPT !.igws = {IF g.id = igw THEN [g EXCEPT !.vpc = vpc] ELSE g : g \in @}]

\* create_route_table / create_route / associate
Ok_create_route_table(s, vpc) == vpc \in VpcIds(s)
P_create_route_table(s, vpc) ==
    [s EXCEPT !.next = @ + 1,
              !.rts = @ \cup {[id |-> s.next, vpc |-> vpc, gw |-> NoId, nat |-> NoId]}]
HasDefaultRoute(r) == r.gw # NoId \/ r.nat # NoId
Ok_route_igw(s, rt, igw) ==
    /\ rt \in Ids(s.rts)
    /\ igw \in Ids(s.igws)
    /\ ~HasDefaultRoute(Rec(s.rts, rt))
    /\ Rec(s.igws, igw).vpc = Rec(s.rts, rt).vpc
Err_route(s, rt) ==
    IF rt \in Ids(s.rts) /\ HasDefaultRoute(Rec(s.rts, rt))
    THEN "RouteAlreadyExists" ELSE "InvalidParameterValue"
P_route_igw(s, rt, igw) ==
    [s EXCEPT !.rts = {IF r.id = rt THEN [r EXCEPT !.gw = igw] ELSE r : r \in @}]
Ok_route_nat(s, rt, nat) ==
    /\ rt \in Ids(s.rts)
    /\ nat \in Ids(s.nats)
    /\ ~HasDefaultRoute(Rec(s.rts, rt))
    /\ SubnetVpc(s, Rec(s.nats, nat).subnet) = Rec(s.rts, rt).vpc
P_route_nat(s, rt, nat) ==
    [s EXCEPT !.rts = {IF r.id = rt THEN [r EXCEPT !.nat = nat] ELSE r : r \in @}]
Ok_associate(s, rt, sn) ==
    /\ rt \in Ids(s.rts)
    /\ sn \in Ids(s.subnets)
    /\ Rec(s.subnets, sn).rt = NoId
    /\ Rec(s.subnets, sn).vpc = Rec(s.rts, rt).vpc
Err_associate(s, rt, sn) ==
    IF rt \in Ids(s.rts) /\ sn \in Ids(s.subnets)
    THEN (IF Rec(s.subnets, sn).rt # NoId
          THEN "Resource.AlreadyAssociated" ELSE "InvalidParameterValue")
    ELSE "InvalidID.NotFound"
P_associate(s, rt, sn) ==
    [s EXCEPT !.subnets = {IF x.id = sn THEN [x EXCEPT !.rt = rt] ELSE x : x \in @}]

\* ec2.create_subnet / modify_subnet_attribute
Ok_create_subnet(s, vpc, cidr, az) ==
    /\ vpc \in VpcIds(s)
    /\ az \in RangeOf(s.azs)
    /\ Within(cidr, VpcRec(s, vpc).cidr)
    /\ \A x \in s.subnets : x.vpc = vpc => ~Overlap(x.cidr, cidr)
Err_create_subnet(s, vpc, cidr, az) ==
    IF vpc \notin VpcIds(s) THEN "InvalidVpcID.NotFound"
    ELSE IF az \notin RangeOf(s.azs) THEN "InvalidParameterValue"
    ELSE IF ~Within(cidr, VpcRec(s, vpc).cidr) THEN "InvalidSubnet.Range"
    ELSE "InvalidSubnet.Conflict"
P_create_subnet(s, vpc, cidr, az) ==
    [s EXCEPT !.next = @ + 1,
              !.subnets = @ \cup {[id |-> s.next, vpc |-> vpc, cidr |-> cidr, az |-> az,
                                   mapPublic |-> FALSE, rt |-> NoId]}]
P_map_public(s, sn) ==
    [s EXCEPT !.subnets = {IF x.id = sn THEN [x EXCEPT !.mapPublic = TRUE] ELSE x : x \in @}]

\* allocate_address / create_nat_gateway
P_allocate_address(s) == [s EXCEPT !.next = @ + 1, !.eips = @ \cup {s.next}]
Ok_create_nat_gateway(s, sn, eip) ==
    /\ sn \in Ids(s.subnets)
    /\ eip \in s.eips
    /\ \A n \in s.nats : n.eip # eip
P_create_nat_gateway(s, sn, eip) ==
    [s EXCEPT !.next = @ + 1,
              !.nats = @ \cup {[id |-> s.next, subnet |-> sn, eip |-> eip,
                                state |-> "pending"]}]

\* create_security_group / authorize_ingress
Ok_create_security_group(s, name, vpc) ==
    /\ vpc \in VpcIds(s)
    /\ \A g \in s.sgs : ~(g.vpc = vpc /\ g.name = name)
Err_create_security_group(s, name, vpc) ==
    IF vpc \in VpcIds(s) THEN "InvalidGroup.Duplicate" ELSE "InvalidVpcID.NotFound"
P_create_security_group(s, name, vpc) ==
    [s EXCEPT !.next = @ + 1,
              !.sgs = @ \cup {[id |-> s.next, vpc |-> vpc, name |-> name, rules |-> {}]}]
CidrRule(port, cidr) == [port |-> port, kind |-> "cidr", cidr |-> cidr, sg |-> NoId]
GroupRule(port, sg) == [port |-> port, kind |-> "sg", cidr |-> NoCidr, sg |-> sg]
Ok_authorize_ingress(s, sg, rules) ==
    /\ sg \in Ids(s.sgs)
    /\ \A r \in rules : r.kind = "sg" => r.sg \in Ids(s.sgs)
    /\ rules \cap Rec(s.sgs, sg).rules = {}
P_authorize_ingress(s, sg, rules) ==
    [s EXCEPT !.sgs = {IF g.id = sg THEN [g EXCEPT !.rules = @ \cup rules] ELSE g : g \in @}]

\* create_key_pair
Ok_create_key_pair(s, name) == name \notin s.keys
P_create_key_pair(s, name) == [s EXCEPT !.keys = @ \cup {name}]

\* create_launch_template / describe_launch_templates
Ok_create_launch_template(s, name) == \A t \in s.lts : t.name # name
P_create_launch_template(s, name, data) ==
    [s EXCEPT !.next = @ + 1,
              !.lts = @ \cup {[id |-> s.next, name |-> name, data |-> data]}]
LtByName(s, name) == (CHOOSE t \in s.lts : t.name = name).id

\* elbv2: create_load_balancer / create_target_group / create_listener
SubnetsUsable(s, sns) ==
    /\ sns \subseteq Ids(s.subnets)
    /\ Cardinality({Rec(s.subnets, x).az : x \in sns}) >= 2
    /\ Cardinality({Rec(s.subnets, x).vpc : x \in sns}) = 1
    /\ \A x \in sns : \E g \in s.igws : g.vpc = Rec(s.subnets, x).vpc
Ok_create_load_balancer(s, name, sns, sg) ==
    /\ \A b \in s.albs : b.name # name
    /\ SubnetsUsable(s, sns)
    /\ sg \in Ids(s.sgs)
    /\ \A x \in sns : Rec(s.subnets, x).vpc = Rec(s.sgs, sg).vpc
Err_create_load_balancer(s, name) ==
    IF \E b \in s.albs : b.name = name
    THEN "DuplicateLoadBalancerName" ELSE "InvalidConfigurationRequest"
P_create_load_balancer(s, name, sns, sg) ==
    [s EXCEPT !.next = @ + 1,
              !.albs = @ \cup {[id |-> s.next, name |-> name, subnets |-> sns, sg |-> sg]}]
Ok_create_target_group(s, name, vpc) ==
    /\ vpc \in VpcIds(s)
    /\ \A t \in s.tgs : t.name # name
Err_create_target_group(s, name) ==
    IF \E t \in s.tgs : t.name = name
    THEN "DuplicateTargetGroupName" ELSE "InvalidConfigurationRequest"
P_create_target_group(s, name, vpc) ==
    [s EXCEPT !.next = @ + 1,
              !.tgs = @ \cup {[id |-> s.next, name |-> name, vpc |-> vpc]}]
AlbVpc(s, alb) ==
    LET v == {Rec(s.subnets, x).vpc : x \in Rec(s.albs, alb).subnets}
    IN IF v = {} THEN NoId ELSE CHOOSE x \in v : TRUE
Ok_create_listener(s, alb, tg) ==
    /\ alb \in Ids(s.albs)
    /\ tg \in Ids(s.tgs)
    /\ \A l \in s.lsns : l.alb # alb
    /\ AlbVpc(s, alb) = Rec(s.tgs, tg).vpc
Err_create_listener(s, alb, tg) ==
    IF alb \in Ids(s.albs) /\ tg \in Ids(s.tgs)
    THEN (IF \E l \in s.lsns : l.alb = alb
          THEN "DuplicateListener" ELSE "InvalidConfigurationRequest")
    ELSE "ValidationError"
P_create_listener(s, alb, tg) ==
    [s EXCEPT !.next = @ + 1,
              !.lsns = @ \cup {[id |-> s.next, alb |-> alb, tg |-> tg]}]

\* autoscaling.create_auto_scaling_group
Ok_create_auto_scaling_group(s, name, lt, sns, tgs) ==
    /\ \A g \in s.asgs : g.name # name
    /\ lt \in Ids(s.lts)
    /\ sns # {}
    /\ sns \subseteq Ids(s.subnets)
    /\ tgs \subseteq Ids(s.tgs)
Err_create_auto_scaling_group(s, name) ==
    IF \E g \in s.asgs : g.name = name THEN "AlreadyExists" ELSE "ValidationError"
P_create_auto_scaling_group(s, name, lt, sns, tgs) ==
    [s EXCEPT !.asgs = @ \cup {[name |-> name, lt |-> lt, subnets |-> sns, tgs |-> tgs]}]

-----------------------------------------------------------------------------
(* Running a function body: a function is the sequence of provider calls   *)
(* it makes.  A call is refused by the provider when its Ok_ rule fails;   *)
(* an accepted call may still fail for an unrelated reason (throttling,    *)
(* permissions, network), at most MaxFaults times per behaviour.  The      *)
(* function stops at its first failing call: the exception leaves it.      *)

Call(op, name, vpc, args, ok, err, post) ==
    [op |-> op, name |-> name, vpc |-> vpc, args |-> args,
     ok |-> ok, err |-> err, post |-> post]

UNRELATED == "InternalError"

FirstBad(calls) ==
    IF \A j \in 1..Len(calls) : calls[j].ok THEN Len(calls) + 1
    ELSE CHOOSE j \in 1..Len(calls) :
            ~calls[j].ok /\ \A i \in 1..(j - 1) : calls[i].ok

\* where the body can stop: Len(calls) + 1 is "ran to its end"
Cut(calls) == {k \in 1..FirstBad(calls) : k = FirstBad(calls) \/ faults < MaxFaults}

Completed(calls, k) == k > Len(calls)

CodeAt(calls, k) == IF calls[k].ok THEN UNRELATED ELSE calls[k].err

Entries(calls, k) ==
    [j \in 1..Min(k, Len(calls)) |->
        [op |-> calls[j].op, name |-> calls[j].name, vpc |-> calls[j].vpc,
         args |-> calls[j].args,
         res |-> IF j < k THEN "ok" ELSE CodeAt(calls, k)]]

After(s, calls, k) == IF k = 1 THEN s ELSE calls[k - 1].post

\* the provider calls 1..k of the body are issued; call k fails unless k is past the end
Issue(calls, k) ==
    /\ aws' = After(aws, calls, k)
    /\ log' = log \o Entries(calls, k)
    /\ faults' = IF k < FirstBad(calls) THEN faults + 1 ELSE faults

EmptyCtx ==
    [azs |-> <<>>, vpc |-> NoId, igw |-> NoId, rt |-> NoId, pubs |-> <<>>, privs |-> <<>>,
     nat |-> NoId, priv_rt |-> NoId, alb_sg |-> NoId, sg |-> NoId, key |-> "",
     lt |-> NoId, alb |-> NoId, tg |-> NoId, lsn |-> NoId, asg |-> ""]

NoWait == [id |-> NoId, n |-> 0]

-----------------------------------------------------------------------------
(* Control: main() of each script is its list of statements *)

NAT_main ==
    <<"choose_azs", "create_vpc", "create_igw_and_route_table", "create_subnets",
      "create_nat_and_private_route", "associate_route_table", "create_security_groups",
      "create_keypair", "create_launch_template", "create_alb_and_tg",
      "create_auto_scaling_group">>

Latest_main ==
    <<"create_vpc", "create_internet_gateway", "create_subnets", "create_route_table",
      "create_security_group", "create_key_pair", "create_launch_template",
      "create_load_balancer", "create_target_group", "create_listener", "create_asg">>

\* main() calling create_launch_template once per definition of it in the file
ALB_main_twice ==
    <<"create_vpc", "create_public_subnets", "create_security_group", "create_key_pair",
      "create_launch_template", "create_launch_template", "create_auto_scaling_group",
      "create_load_balancer_and_target_group">>

ALB_main ==
    <<"create_vpc", "create_public_subnets", "create_security_group", "create_key_pair",
      "create_launch_template", "create_auto_scaling_group",
      "create_load_balancer_and_target_group">>

Main(s) ==
    CASE s = "infrawithNAT" -> NAT_main
      [] s = "infraLatest" -> Latest_main
      [] OTHER -> ALB_main

At(s, stmt, ph) ==
    /\ script = s
    /\ status = "running"
    /\ Main(s)[pc] = stmt
    /\ phase = ph

\* the statement of main() that assigns a local has been executed in this run; a
\* local read before that raises UnboundLocalError
Assigned(stmt) == \E i \in 1..(pc - 1) : Main(script)[i] = stmt

\* evaluating the arguments of a call of main() raises: no provider call is made
ArgumentError(code) ==
    /\ UNCHANGED <<aws, log, faults>>
    /\ status' = "failed"
    /\ exc' = code
    /\ UNCHANGED <<ctx, pc, phase, wait>>

\* the function returns: main() binds its results and goes on, or prints completion
Return(c) ==
    /\ ctx' = c
    /\ phase' = "call"
    /\ wait' = NoWait
    /\ exc' = ""
    /\ pc' = IF pc < Len(Main(script)) THEN pc + 1 ELSE pc
    /\ status' = IF pc < Len(Main(script)) THEN "running" ELSE "done"

\* an exception leaves the function and main(): the process ends with a traceback
Raise(code) ==
    /\ status' = "failed"
    /\ exc' = code
    /\ UNCHANGED <<ctx, pc, phase, wait>>

Finish(calls, k, c) ==
    /\ Issue(calls, k)
    /\ IF Completed(calls, k) THEN Return(c) ELSE Raise(CodeAt(calls, k))

------------------------------------------------------------------------
\* except branches where the key-pair branch swallows every error code
reuse_codes_any(s, op) ==
    CASE s = "infrawithNAT" /\ op = "create_vpc" -> {"VpcLimitExceeded"}
      [] s # "infracreationWithALB" /\ op = "create_key_pair" ->
            {"InvalidKeyPair.Duplicate", "InternalError"}
      [] s # "infracreationWithALB" /\ op = "create_launch_template" ->
            {"InvalidLaunchTemplateName.AlreadyExistsException"}
      [] s = "infrawithNAT" /\ op = "create_auto_scaling_group" -> {"AlreadyExists"}
      [] OTHER -> {}

\* error codes an except branch of the script recovers from, per provider operation
reuse_codes(s, op) ==
    CASE s = "infrawithNAT" /\ op = "create_vpc" -> {"VpcLimitExceeded"}
      [] s # "infracreationWithALB" /\ op = "create_key_pair" -> {"InvalidKeyPair.Duplicate"}
      [] s # "infracreationWithALB" /\ op = "create_launch_template" ->
            {"InvalidLaunchTemplateName.AlreadyExistsException"}
      [] s = "infrawithNAT" /\ op = "create_auto_scaling_group" -> {"AlreadyExists"}
      [] OTHER -> {}

-----
(* infrawithNAT.py *)

NAT == "infrawithNAT"

\* a zone choice that keeps every zone the region offers
choose_azs_all(s) == s.azs

\* choose_azs: the first two zone names the provider lists
choose_azs(s) == SubSeq(s.azs, 1, Min(2, Len(s.azs)))

\* a zone check that lets a single zone through
too_few_azs_one(azs) == Len(azs) < 1

\* main(): if len(azs) < 2: exit
too_few_azs(azs) == Len(azs) < 2

NAT_choose_azs ==
    /\ At(NAT, "choose_azs", "call")
    /\ LET calls == <<Call("describe_availability_zones", REGION, NA, {}, TRUE, "", aws)>>
           azs == choose_azs(aws)
       IN \E k \in Cut(calls) :
            /\ Issue(calls, k)
            /\ IF ~Completed(calls, k) THEN Raise(CodeAt(calls, k))
               ELSE IF too_few_azs(azs)
               THEN /\ ctx' = [ctx EXCEPT !.azs = azs]
                    /\ status' = "exited"
                    /\ exc' = "SystemExit"
                    /\ UNCHANGED <<pc, phase, wait>>
               ELSE Return([ctx EXCEPT !.azs = azs])
    /\ UNCHANGED <<script, run, pem, start, prev>>

\* a lookup that forgets the isDefault filter
NonDefaultVpcs_unfiltered(s) == s.vpcs

\* ec2.vpcs.filter(isDefault = false)
NonDefaultVpcs(s) == SelectSeq(s.vpcs, LAMBDA v : ~v.isDefault)

\* vpcs[0]: the provider lists VPCs in no documented order, so any of the listed
\* VPCs can come first
ListedFirst(vpcs) == {vpcs[i].id : i \in 1..Len(vpcs)}

\* create_vpc, up to the waiter: the create call and the except branch
NAT_create_vpc ==
    /\ At(NAT, "create_vpc", "call")
    /\ LET calls == <<Call("create_vpc", PROJECT(NAT) \o "-vpc", NA, {},
                           Ok_create_vpc(aws), "VpcLimitExceeded",
                           P_create_vpc(aws, VPC_CIDR(NAT)))>>
           lookup == <<Call("describe_vpcs", "isDefault=false", NA, {}, TRUE, "", aws)>>
           vpcs == NonDefaultVpcs(aws)
       IN \E k \in Cut(calls) :
            IF Completed(calls, k)
            THEN /\ Issue(calls, k)
                 /\ phase' = "wait"
                 /\ wait' = [id |-> aws.next, n |-> 0]
                 /\ UNCHANGED <<ctx, pc, status, exc>>
            ELSE IF CodeAt(calls, k) \in reuse_codes(NAT, "create_vpc")
            THEN \E j \in Cut(lookup) :
                    /\ aws' = aws
                    /\ log' = log \o Entries(calls, k) \o Entries(lookup, j)
                    /\ faults' = IF j < FirstBad(lookup) THEN faults + 1 ELSE faults
                    /\ IF ~Completed(lookup, j) THEN Raise(CodeAt(lookup, j))
                       ELSE IF vpcs # <<>>
                       THEN \E v \in ListedFirst(vpcs) : Return([ctx EXCEPT !.vpc = v])
                       ELSE Raise("VpcLimitExceeded")
            ELSE /\ Issue(calls, k)
                 /\ Raise(CodeAt(calls, k))
    /\ UNCHANGED <<script, run, pem, start, prev>>

\* a handler that catches every exception of the try block and goes on
waiter_error_swallowed ==
    /\ phase' = "resume"
    /\ UNCHANGED <<ctx, pc, status, exc>>

\* the scripts catch ClientError only (or nothing): the waiter's WaiterError is no
\* ClientError, it leaves the function and main()
uncaught_waiter_error ==
    /\ status' = "failed"
    /\ exc' = "WaiterError"
    /\ UNCHANGED <<ctx, pc, phase>>

\* The waiters are botocore's, which the scripts only call; their loop is modelled
\* here from what the scripts rely on: a poll is one describe call, the waiter
\* returns at the first poll that reports "available", and it raises WaiterError
\* when a poll's describe call fails, when the resource is reported in a terminal
\* failure state, or when it has used up its polls (WaitBudget stands for the
\* waiter's maximum number of attempts; the scripts pass no WaiterConfig).

\* the waiter gives up once it has made n polls without success
BudgetSpent(n) == n >= WaitBudget

\* vpc.wait_until_available(): one poll of the vpc_available waiter
wait_until_available ==
    /\ status = "running"
    /\ Main(script)[pc] = "create_vpc"
    /\ phase = "wait"
    /\ LET calls == <<Call("describe_vpcs", "waiter", NA, {wait.id}, TRUE, "", aws)>>
       IN \E k \in Cut(calls) :
            /\ Issue(calls, k)
            /\ wait' = [wait EXCEPT !.n = @ + 1]
            /\ IF ~Completed(calls, k)
               THEN uncaught_waiter_error
               ELSE IF VpcState(aws, wait.id) = "available"
               THEN /\ phase' = "resume"
                    /\ UNCHANGED <<ctx, pc, status, exc>>
               ELSE IF BudgetSpent(wait.n + 1)
               THEN uncaught_waiter_error
               ELSE UNCHANGED <<ctx, pc, phase, status, exc>>
    /\ UNCHANGED <<script, run, pem, start, prev>>

\* create_vpc, after the waiter: tag and return the new VPC
NAT_create_vpc_tags ==
    /\ At(NAT, "create_vpc", "resume")
    /\ LET calls == <<Call("create_tags", PROJECT(NAT) \o "-vpc", wait.id, {wait.id},
                           wait.id \in VpcIds(aws), "InvalidVpcID.NotFound",
                           P_tag_vpc(aws, wait.id, PROJECT(NAT) \o "-vpc"))>>
       IN \E k \in Cut(calls) : Finish(calls, k, [ctx EXCEPT !.vpc = wait.id])
    /\ UNCHANGED <<script, run, pem, start, prev>>

Tag(s, name, id) ==
    Call("create_tags", name, NA, {id}, id # NoId, "InvalidID.NotFound", s)

\* create_igw_and_route_table(vpc)
NAT_create_igw_and_route_table ==
    /\ At(NAT, "create_igw_and_route_table", "call")
    /\ LET vpc == ctx.vpc
           igw == aws.next
           s1 == P_create_internet_gateway(aws)
           s2 == P_attach(s1, igw, vpc)
           pub_rt == s2.next
           s3 == P_create_route_table(s2, vpc)
           s4 == P_route_igw(s3, pub_rt, igw)
           calls ==
             <<Call("create_internet_gateway", PROJECT(NAT) \o "-igw", NA, {}, TRUE, "", s1),
               Call("attach_to_vpc", PROJECT(NAT) \o "-igw", vpc, {igw, vpc},
                    Ok_attach(s1, igw, vpc), Err_attach(s1, igw, vpc), s2),
               Tag(s2, PROJECT(NAT) \o "-igw", igw),
               Call("create_route_table", PROJECT(NAT) \o "-public-rt", vpc, {vpc},
                    Ok_create_route_table(s2, vpc), "InvalidVpcID.NotFound", s3),
               Tag(s3, PROJECT(NAT) \o "-public-rt", pub_rt),
               Call("create_route", PROJECT(NAT) \o "-public-rt", NA, {pub_rt, igw},
                    Ok_route_igw(s3, pub_rt, igw), Err_route(s3, pub_rt), s4)>>
       IN \E k \in Cut(calls) :
            Finish(calls, k, [ctx EXCEPT !.igw = igw, !.rt = pub_rt])
    /\ UNCHANGED <<script, run, pem, start, prev>>

\* create_subnets(vpc, pub_rt, azs): the body of the for loop from index idx on;
\* PUBLIC_SUBNET_CIDRS[idx] of an index past the list raises IndexError before
\* any provider call of that round
RECURSIVE NAT_subnet_loop(_, _, _, _, _)
NAT_subnet_loop(s, idx, azs, vpc, pub_rt) ==
    IF idx > Len(azs)
    THEN [calls |-> <<>>, pubs |-> <<>>, privs |-> <<>>, err |-> ""]
    ELSE IF idx > Len(PUBLIC_SUBNET_CIDRS(NAT)) \/ idx > Len(PRIVATE_SUBNET_CIDRS)
    THEN [calls |-> <<>>, pubs |-> <<>>, privs |-> <<>>, err |-> "IndexError"]
    ELSE LET az == azs[idx]
             pub_cidr == PUBLIC_SUBNET_CIDRS(NAT)[idx]
             priv_cidr == PRIVATE_SUBNET_CIDRS[idx]
             pub_sub == s.next
             s1 == P_create_subnet(s, vpc, pub_cidr, az)
             s2 == P_map_public(s1, pub_sub)
             s3 == P_associate(s2, pub_rt, pub_sub)
             priv_sub == s3.next
             s4 == P_create_subnet(s3, vpc, priv_cidr, az)
             rest == NAT_subnet_loop(s4, idx + 1, azs, vpc, pub_rt)
         IN [calls |->
               <<Call("create_subnet", PROJECT(NAT) \o "-pub-" \o az, vpc, {vpc},
                      Ok_create_subnet(s, vpc, pub_cidr, az),
                      Err_create_subnet(s, vpc, pub_cidr, az), s1),
                 Call("modify_subnet_attribute", PROJECT(NAT) \o "-pub-" \o az, NA, {pub_sub},
                      pub_sub \in Ids(s1.subnets), "InvalidSubnetID.NotFound", s2),
                 Tag(s2, PROJECT(NAT) \o "-pub-" \o az, pub_sub),
                 Call("associate_with_subnet", PROJECT(NAT) \o "-pub-" \o az, NA,
                      {pub_rt, pub_sub},
                      Ok_associate(s2, pub_rt, pub_sub), Err_associate(s2, pub_rt, pub_sub), s3),
                 Call("create_subnet", PROJECT(NAT) \o "-priv-" \o az, vpc, {vpc},
                      Ok_create_subnet(s3, vpc, priv_cidr, az),
                      Err_create_subnet(s3, vpc, priv_cidr, az), s4),
                 Tag(s4, PROJECT(NAT) \o "-priv-" \o az, priv_sub)>> \o rest.calls,
             pubs |-> <<pub_sub>> \o rest.pubs,
             privs |-> <<priv_sub>> \o rest.privs,
             err |-> rest.err]

NAT_create_subnets ==
    /\ At(NAT, "create_subnets", "call")
    /\ LET body == NAT_subnet_loop(aws, 1, ctx.azs, ctx.vpc, ctx.rt)
       IN \E k \in Cut(body.calls) :
            /\ Issue(body.calls, k)
            /\ IF ~Completed(body.calls, k) THEN Raise(CodeAt(body.calls, k))
               ELSE IF body.err # "" THEN Raise(body.err)
               ELSE Return([ctx EXCEPT !.pubs = body.pubs, !.privs = body.privs])
    /\ UNCHANGED <<script, run, pem, start, prev>>

\* main() handing the last public subnet to create_nat_and_private_route
NAT_create_nat_in_last_subnet ==
    /\ At(NAT, "create_nat_and_private_route", "call")
    /\ LET public_subnet_id == ctx.pubs[Len(ctx.pubs)]
           alloc_id == aws.next
           s1 == P_allocate_address(aws)
           nat_id == s1.next
           s2 == P_create_nat_gateway(s1, public_subnet_id, alloc_id)
           calls ==
             <<Call("allocate_address", PROJECT(NAT) \o "-eip", NA, {}, TRUE, "", s1),
               Call("create_nat_gateway", PROJECT(NAT) \o "-nat", NA,
                    {public_subnet_id, alloc_id},
                    Ok_create_nat_gateway(s1, public_subnet_id, alloc_id),
                    "InvalidSubnetID.NotFound", s2)>>
       IN IF ~Assigned("create_subnets") \/ ~Assigned("create_vpc")
          THEN ArgumentError("UnboundLocalError")
          ELSE IF ctx.pubs = <<>>
          THEN ArgumentError("IndexError")
          ELSE \E k \in Cut(calls) :
                 /\ Issue(calls, k)
                 /\ IF Completed(calls, k)
                    THEN /\ phase' = "wait"
                         /\ wait' = [id |-> nat_id, n |-> 0]
                         /\ UNCHANGED <<ctx, pc, status, exc>>
                    ELSE Raise(CodeAt(calls, k))
    /\ UNCHANGED <<script, run, pem, start, prev>>

\* main(): create_nat_and_private_route(public_subnet_ids[0], vpc), up to the waiter;
\* the argument public_subnet_ids[0] is evaluated before the function is entered
NAT_create_nat_and_private_route ==
    /\ At(NAT, "create_nat_and_private_route", "call")
    /\ LET public_subnet_id == ctx.pubs[1]
           alloc_id == aws.next
           s1 == P_allocate_address(aws)
           nat_id == s1.next
           s2 == P_create_nat_gateway(s1, public_subnet_id, alloc_id)
           calls ==
             <<Call("allocate_address", PROJECT(NAT) \o "-eip", NA, {}, TRUE, "", s1),
               Call("create_nat_gateway", PROJECT(NAT) \o "-nat", NA,
                    {public_subnet_id, alloc_id},
                    Ok_create_nat_gateway(s1, public_subnet_id, alloc_id),
                    "InvalidSubnetID.NotFound", s2)>>
       IN IF ~Assigned("create_subnets") \/ ~Assigned("create_vpc")
          THEN ArgumentError("UnboundLocalError")
          ELSE IF ctx.pubs = <<>>
          THEN ArgumentError("IndexError")
          ELSE \E k \in Cut(calls) :
                 /\ Issue(calls, k)
                 /\ IF Completed(calls, k)
                    THEN /\ phase' = "wait"
                         /\ wait' = [id |-> nat_id, n |-> 0]
                         /\ UNCHANGED <<ctx, pc, status, exc>>
                    ELSE Raise(CodeAt(calls, k))
    /\ UNCHANGED <<script, run, pem, start, prev>>

\* waiter.wait(NatGatewayIds=[nat_id]): one poll of the nat_gateway_available waiter
nat_gateway_available ==
    /\ At(NAT, "create_nat_and_private_route", "wait")
    /\ LET calls == <<Call("describe_nat_gateways", "waiter", NA, {wait.id}, TRUE, "", aws)>>
       IN \E k \in Cut(calls) :
            /\ Issue(calls, k)
            /\ wait' = [wait EXCEPT !.n = @ + 1]
            /\ IF ~Completed(calls, k)
               THEN uncaught_waiter_error
               ELSE IF NatState(aws, wait.id) = "available"
               THEN /\ phase' = "resume"
                    /\ UNCHANGED <<ctx, pc, status, exc>>
               ELSE IF NatState(aws, wait.id) = "failed" \/ BudgetSpent(wait.n + 1)
               THEN uncaught_waiter_error
               ELSE UNCHANGED <<ctx, pc, phase, status, exc>>
    /\ UNCHANGED <<script, run, pem, start, prev>>

\* create_nat_and_private_route, after the waiter: private route table and its route
NAT_create_private_route ==
    /\ At(NAT, "create_nat_and_private_route", "resume")
    /\ LET vpc == ctx.vpc
           nat_id == wait.id
           priv_rt == aws.next
           s1 == P_create_route_table(aws, vpc)
           s2 == P_route_nat(s1, priv_rt, nat_id)
           calls ==
             <<Call("create_route_table", PROJECT(NAT) \o "-private-rt", vpc, {vpc},
                    Ok_create_route_table(aws, vpc), "InvalidVpcID.NotFound", s1),
               Tag(s1, PROJECT(NAT) \o "-private-rt", priv_rt),
               Call("create_route", PROJECT(NAT) \o "-private-rt", NA, {priv_rt, nat_id},
                    Ok_route_nat(s1, priv_rt, nat_id), Err_route(s1, priv_rt), s2)>>
       IN \E k \in Cut(calls) :
            Finish(calls, k, [ctx EXCEPT !.nat = nat_id, !.priv_rt = priv_rt])
    /\ UNCHANGED <<script, run, pem, start, prev>>

\* an association loop that stops after the first private subnet
NAT_associate_loop_first(s, i, sids, rt) ==
    IF i > Len(sids) \/ i > 1 THEN <<>>
    ELSE <<Call("associate_route_table", PROJECT(NAT) \o "-private-rt", NA, {rt, sids[i]},
                Ok_associate(s, rt, sids[i]), Err_associate(s, rt, sids[i]),
                P_associate(s, rt, sids[i]))>>

\* main(): for sid in private_subnet_ids: associate_route_table(private_rt_id, sid)
RECURSIVE NAT_associate_loop(_, _, _, _)
NAT_associate_loop(s, i, sids, rt) ==
    IF i > Len(sids) THEN <<>>
    ELSE LET s1 == P_associate(s, rt, sids[i])
         IN <<Call("associate_route_table", PROJECT(NAT) \o "-private-rt", NA, {rt, sids[i]},
                   Ok_associate(s, rt, sids[i]), Err_associate(s, rt, sids[i]), s1)>>
            \o NAT_associate_loop(s1, i + 1, sids, rt)

NAT_associate_route_table ==
    /\ At(NAT, "associate_route_table", "call")
    /\ LET calls == NAT_associate_loop(aws, 1, ctx.privs, ctx.priv_rt)
       IN \E k \in Cut(calls) : Finish(calls, k, ctx)
    /\ UNCHANGED <<script, run, pem, start, prev>>

HTTP == 80
SSH == 22

\* the ingress rules create_security_groups gives the instances' group
NAT_ec2_sg_rules(alb_sg) == {GroupRule(HTTP, alb_sg), CidrRule(SSH, OPEN_CIDR)}

\* create_security_groups(vpc)
NAT_create_security_groups ==
    /\ At(NAT, "create_security_groups", "call")
    /\ LET vpc == ctx.vpc
           alb_sg == aws.next
           s1 == P_create_security_group(aws, PROJECT(NAT) \o "-alb-sg", vpc)
           s2 == P_authorize_ingress(s1, alb_sg, {CidrRule(HTTP, OPEN_CIDR)})
           ec2_sg == s2.next
           s3 == P_create_security_group(s2, PROJECT(NAT) \o "-ec2-sg", vpc)
           s4 == P_authorize_ingress(s3, ec2_sg, NAT_ec2_sg_rules(alb_sg))
           calls ==
             <<Call("create_security_group", PROJECT(NAT) \o "-alb-sg", vpc, {vpc},
                    Ok_create_security_group(aws, PROJECT(NAT) \o "-alb-sg", vpc),
                    Err_create_security_group(aws, PROJECT(NAT) \o "-alb-sg", vpc), s1),
               Call("authorize_ingress", PROJECT(NAT) \o "-alb-sg", NA, {alb_sg},
                    Ok_authorize_ingress(s1, alb_sg, {CidrRule(HTTP, OPEN_CIDR)}),
                    "InvalidGroup.NotFound", s2),
               Tag(s2, "alb-sg", alb_sg),
               Call("create_security_group", PROJECT(NAT) \o "-ec2-sg", vpc, {vpc},
                    Ok_create_security_group(s2, PROJECT(NAT) \o "-ec2-sg", vpc),
                    Err_create_security_group(s2, PROJECT(NAT) \o "-ec2-sg", vpc), s3),
               Call("authorize_ingress", PROJECT(NAT) \o "-ec2-sg", NA, {ec2_sg, alb_sg},
                    Ok_authorize_ingress(s3, ec2_sg, NAT_ec2_sg_rules(alb_sg)),
                    "InvalidGroup.NotFound", s4),
               Tag(s4, "ec2-sg", ec2_sg)>>
       IN \E k \in Cut(calls) :
            Finish(calls, k, [ctx EXCEPT !.alb_sg = alb_sg, !.sg = ec2_sg])
    /\ UNCHANGED <<script, run, pem, start, prev>>

\* create_keypair()
NAT_create_keypair ==
    /\ At(NAT, "create_keypair", "call")
    /\ LET calls == <<Call("create_key_pair", KEY_NAME(NAT), NA, {},
                           Ok_create_key_pair(aws, KEY_NAME(NAT)), "InvalidKeyPair.Duplicate",
                           P_create_key_pair(aws, KEY_NAME(NAT)))>>
       IN \E k \in Cut(calls) :
            /\ Issue(calls, k)
            /\ IF Completed(calls, k)
               THEN pem' = TRUE /\ Return(ctx)
               ELSE IF CodeAt(calls, k) \in reuse_codes(NAT, "create_key_pair")
               THEN pem' = pem /\ Return(ctx)
               ELSE pem' = pem /\ Raise(CodeAt(calls, k))
    /\ UNCHANGED <<script, run, start, prev>>

LtData(s, key, sg_id, ud) ==
    [ami |-> AMI_ID(s), type |-> INSTANCE_TYPE(s), key |-> key, sg |-> sg_id, ud |-> ud]

\* a create_launch_template whose except branch rewrites the existing template with
\* the data of this run before returning its id
NAT_create_launch_template_overwrite ==
    /\ At(NAT, "create_launch_template", "call")
    /\ LET sg_id == ctx.sg
           name == LAUNCH_TEMPLATE_NAME(NAT)
           data == LtData(NAT, KEY_NAME(NAT), sg_id, "base64(httpd)")
           calls == <<Call("create_launch_template", name, NA, {sg_id},
                           Ok_create_launch_template(aws, name),
                           "InvalidLaunchTemplateName.AlreadyExistsException",
                           P_create_launch_template(aws, name, data))>>
       IN \E k \in Cut(calls) :
            IF Completed(calls, k)
            THEN /\ Issue(calls, k)
                 /\ Return([ctx EXCEPT !.lt = aws.next])
            ELSE IF CodeAt(calls, k) \in reuse_codes(NAT, "create_launch_template")
            THEN /\ aws' = [aws EXCEPT !.lts = {IF x.name = name THEN [x EXCEPT !.data = data]
                                                ELSE x : x \in @}]
                 /\ log' = log \o Entries(calls, k)
                 /\ faults' = faults
                 /\ Return([ctx EXCEPT !.lt = LtByName(aws, name)])
            ELSE /\ Issue(calls, k)
                 /\ Raise(CodeAt(calls, k))
    /\ UNCHANGED <<script, run, pem, start, prev>>

\* create_launch_template(sg_id)
NAT_create_launch_template ==
    /\ At(NAT, "create_launch_template", "call")
    /\ LET sg_id == ctx.sg
           name == LAUNCH_TEMPLATE_NAME(NAT)
           calls == <<Call("create_launch_template", name, NA, {sg_id},
                           Ok_create_launch_template(aws, name),
                           "InvalidLaunchTemplateName.AlreadyExistsException",
                           P_create_launch_template(aws, name,
                               LtData(NAT, KEY_NAME(NAT), sg_id, "base64(httpd)")))>>
           lookup == <<Call("describe_launch_templates", name, NA, {}, TRUE, "", aws)>>
       IN \E k \in Cut(calls) :
            IF Completed(calls, k)
            THEN /\ Issue(calls, k)
                 /\ Return([ctx EXCEPT !.lt = aws.next])
            ELSE IF CodeAt(calls, k) \in reuse_codes(NAT, "create_launch_template")
            THEN \E j \in Cut(lookup) :
                    /\ aws' = aws
                    /\ log' = log \o Entries(calls, k) \o Entries(lookup, j)
                    /\ faults' = IF j < FirstBad(lookup) THEN faults + 1 ELSE faults
                    /\ IF Completed(lookup, j)
                       THEN Return([ctx EXCEPT !.lt = LtByName(aws, name)])
                       ELSE Raise(CodeAt(lookup, j))
            ELSE /\ Issue(calls, k)
                 /\ Raise(CodeAt(calls, k))
    /\ UNCHANGED <<script, run, pem, start, prev>>

\* create_alb_and_tg(public_subnet_ids, vpc_id, alb_sg_id)
NAT_create_alb_and_tg ==
    /\ At(NAT, "create_alb_and_tg", "call")
    /\ LET vpc_id == ctx.vpc
           sns == RangeOf(ctx.pubs)
           alb_arn == aws.next
           s1 == P_create_load_balancer(aws, ALB_NAME(NAT), sns, ctx.alb_sg)
           tg_arn == s1.next
           s2 == P_create_target_group(s1, TG_NAME(NAT), vpc_id)
           listener_arn == s2.next
           s3 == P_create_listener(s2, alb_arn, tg_arn)
           calls ==
             <<Call("create_load_balancer", ALB_NAME(NAT), NA, IdsOf(ctx.pubs) \cup {ctx.alb_sg},
                    Ok_create_load_balancer(aws, ALB_NAME(NAT), sns, ctx.alb_sg),
                    Err_create_load_balancer(aws, ALB_NAME(NAT)), s1),
               Call("create_target_group", TG_NAME(NAT), vpc_id, {vpc_id},
                    Ok_create_target_group(s1, TG_NAME(NAT), vpc_id),
                    Err_create_target_group(s1, TG_NAME(NAT)), s2),
               Call("create_listener", ALB_NAME(NAT) \o ":80", NA, {alb_arn, tg_arn},
                    Ok_create_listener(s2, alb_arn, tg_arn),
                    Err_create_listener(s2, alb_arn, tg_arn), s3)>>
       IN \E k \in Cut(calls) :
            Finish(calls, k, [ctx EXCEPT !.alb = alb_arn, !.tg = tg_arn, !.lsn = listener_arn])
    /\ UNCHANGED <<script, run, pem, start, prev>>

\* create_auto_scaling_group(lt_id, private_subnet_ids, target_group_arn)
NAT_create_auto_scaling_group ==
    /\ At(NAT, "create_auto_scaling_group", "call")
    /\ LET sns == RangeOf(ctx.privs)
           calls == <<Call("create_auto_scaling_group", ASG_NAME(NAT), NA,
                           {ctx.lt, ctx.tg} \cup IdsOf(ctx.privs),
                           Ok_create_auto_scaling_group(aws, ASG_NAME(NAT), ctx.lt, sns, {ctx.tg}),
                           Err_create_auto_scaling_group(aws, ASG_NAME(NAT)),
                           P_create_auto_scaling_group(aws, ASG_NAME(NAT), ctx.lt, sns, {ctx.tg}))>>
       IN \E k \in Cut(calls) :
            /\ Issue(calls, k)
            /\ IF Completed(calls, k) THEN Return(ctx)
               ELSE IF CodeAt(calls, k) \in reuse_codes(NAT, "create_auto_scaling_group")
               THEN Return(ctx)
               ELSE Raise(CodeAt(calls, k))
    /\ UNCHANGED <<script, run, pem, start, prev>>

-----------------------------------------------------------------------------
(* infraLatest.py *)

Latest == "infraLatest"

VPC_REUSE_COUNT == 4

\* create_vpc(), up to the waiter: reuse the first listed VPC when 4 or more exist
Latest_create_vpc ==
    /\ At(Latest, "create_vpc", "call")
    /\ LET listing == Call("describe_vpcs", "all", NA, {}, TRUE, "", aws)
           create == Call("create_vpc", PROJECT(Latest), NA, {},
                          Ok_create_vpc(aws), "VpcLimitExceeded",
                          P_create_vpc(aws, VPC_CIDR(Latest)))
           reuse == Len(aws.vpcs) >= VPC_REUSE_COUNT
           calls == IF reuse THEN <<listing>> ELSE <<listing, create>>
       IN \E k \in Cut(calls) :
            /\ Issue(calls, k)
            /\ IF ~Completed(calls, k) THEN Raise(CodeAt(calls, k))
               ELSE IF reuse THEN \E v \in ListedFirst(aws.vpcs) : Return([ctx EXCEPT !.vpc = v])
               ELSE /\ phase' = "wait"
                    /\ wait' = [id |-> aws.next, n |-> 0]
                    /\ UNCHANGED <<ctx, pc, status, exc>>
    /\ UNCHANGED <<script, run, pem, start, prev>>

\* create_vpc(), after the waiter
Latest_create_vpc_tags ==
    /\ At(Latest, "create_vpc", "resume")
    /\ LET calls == <<Call("create_tags", PROJECT(Latest), wait.id, {wait.id},
                           wait.id \in VpcIds(aws), "InvalidVpcID.NotFound",
                           P_tag_vpc(aws, wait.id, PROJECT(Latest)))>>
       IN \E k \in Cut(calls) : Finish(calls, k, [ctx EXCEPT !.vpc = wait.id])
    /\ UNCHANGED <<script, run, pem, start, prev>>

\* create_internet_gateway(vpc_id)
Latest_create_internet_gateway ==
    /\ At(Latest, "create_internet_gateway", "call")
    /\ LET vpc_id == ctx.vpc
           igw == aws.next
           s1 == P_create_internet_gateway(aws)
           s2 == P_attach(s1, igw, vpc_id)
           calls ==
             <<Call("create_internet_gateway", PROJECT(Latest) \o "-igw", NA, {}, TRUE, "", s1),
               Call("attach_to_vpc", PROJECT(Latest) \o "-igw", vpc_id, {igw, vpc_id},
                    Ok_attach(s1, igw, vpc_id), Err_attach(s1, igw, vpc_id), s2)>>
       IN \E k \in Cut(calls) : Finish(calls, k, [ctx EXCEPT !.igw = igw])
    /\ UNCHANGED <<script, run, pem, start, prev>>

\* the two create_subnet calls both flat scripts make, in zones a and b
TwoSubnets(s, p, vpc_id) ==
    LET c == PUBLIC_SUBNET_CIDRS(p)
        subnet1 == s.next
        s1 == P_create_subnet(s, vpc_id, c[1], REGION \o "a")
        subnet2 == s1.next
        s2 == P_create_subnet(s1, vpc_id, c[2], REGION \o "b")
    IN [calls |->
          <<Call("create_subnet", PROJECT(p) \o "-subnet1", vpc_id, {vpc_id},
                 Ok_create_subnet(s, vpc_id, c[1], REGION \o "a"),
                 Err_create_subnet(s, vpc_id, c[1], REGION \o "a"), s1),
            Call("create_subnet", PROJECT(p) \o "-subnet2", vpc_id, {vpc_id},
                 Ok_create_subnet(s1, vpc_id, c[2], REGION \o "b"),
                 Err_create_subnet(s1, vpc_id, c[2], REGION \o "b"), s2)>>,
        ids |-> <<subnet1, subnet2>>,
        post |-> s2]

\* create_subnets(vpc_id)
Latest_create_subnets ==
    /\ At(Latest, "create_subnets", "call")
    /\ LET body == TwoSubnets(aws, Latest, ctx.vpc)
       IN \E k \in Cut(body.calls) : Finish(body.calls, k, [ctx EXCEPT !.pubs = body.ids])
    /\ UNCHANGED <<script, run, pem, start, prev>>

\* create_route_table(vpc_id, igw_id); main() drops the returned id
Latest_create_route_table ==
    /\ At(Latest, "create_route_table", "call")
    /\ LET vpc_id == ctx.vpc
           route_table == aws.next
           s1 == P_create_route_table(aws, vpc_id)
           s2 == P_route_igw(s1, route_table, ctx.igw)
           calls ==
             <<Call("create_route_table", PROJECT(Latest) \o "-rt", vpc_id, {vpc_id},
                    Ok_create_route_table(aws, vpc_id), "InvalidVpcID.NotFound", s1),
               Call("create_route", PROJECT(Latest) \o "-rt", NA, {route_table, ctx.igw},
                    Ok_route_igw(s1, route_table, ctx.igw), Err_route(s1, route_table), s2)>>
       IN \E k \in Cut(calls) : Finish(calls, k, ctx)
    /\ UNCHANGED <<script, run, pem, start, prev>>

\* the ingress rules the flat scripts give their single security group
Flat_sg_rules == {CidrRule(SSH, OPEN_CIDR), CidrRule(HTTP, OPEN_CIDR)}

\* the provider calls of create_security_group(vpc) in both flat scripts
OneSecurityGroup(s, p, vpc_id) ==
    LET sg == s.next
        s1 == P_create_security_group(s, PROJECT(p) \o "-sg", vpc_id)
        s2 == P_authorize_ingress(s1, sg, Flat_sg_rules)
    IN <<Call("create_security_group", PROJECT(p) \o "-sg", vpc_id, {vpc_id},
              Ok_create_security_group(s, PROJECT(p) \o "-sg", vpc_id),
              Err_create_security_group(s, PROJECT(p) \o "-sg", vpc_id), s1),
         Call("authorize_ingress", PROJECT(p) \o "-sg", NA, {sg},
              Ok_authorize_ingress(s1, sg, Flat_sg_rules), "InvalidGroup.NotFound", s2)>>

\* create_security_group(vpc_id)
Latest_create_security_group ==
    /\ At(Latest, "create_security_group", "call")
    /\ LET calls == OneSecurityGroup(aws, Latest, ctx.vpc)
       IN \E k \in Cut(calls) : Finish(calls, k, [ctx EXCEPT !.sg = aws.next])
    /\ UNCHANGED <<script, run, pem, start, prev>>

\* open(PEM_PATH, 'w'): PEM_PATH of infraLatest.py is an absolute path into a directory
\* of the author's machine, so the open succeeds or raises FileNotFoundError
\* depending on the machine; the other scripts write into the working directory
PemDirExists(s) == IF s = "infraLatest" THEN BOOLEAN ELSE {TRUE}

\* create_key_pair(): FileNotFoundError is no ClientError, the except branch lets it pass
Latest_create_key_pair ==
    /\ At(Latest, "create_key_pair", "call")
    /\ LET calls == <<Call("create_key_pair", KEY_NAME(Latest), NA, {},
                           Ok_create_key_pair(aws, KEY_NAME(Latest)),
                           "InvalidKeyPair.Duplicate",
                           P_create_key_pair(aws, KEY_NAME(Latest)))>>
       IN \E k \in Cut(calls) :
            /\ Issue(calls, k)
            /\ IF Completed(calls, k)
               THEN \E dir \in PemDirExists(Latest) :
                       IF dir THEN pem' = TRUE /\ Return(ctx)
                       ELSE pem' = pem /\ Raise("FileNotFoundError")
               ELSE IF CodeAt(calls, k) \in reuse_codes(Latest, "create_key_pair")
               THEN pem' = pem /\ Return(ctx)
               ELSE pem' = pem /\ Raise(CodeAt(calls, k))
    /\ UNCHANGED <<script, run, start, prev>>

\* create_launch_template(sg_id)
Latest_create_launch_template ==
    /\ At(Latest, "create_launch_template", "call")
    /\ LET sg_id == ctx.sg
           name == LAUNCH_TEMPLATE_NAME(Latest)
           calls == <<Call("create_launch_template", name, NA, {sg_id},
                           Ok_create_launch_template(aws, name),
                           "InvalidLaunchTemplateName.AlreadyExistsException",
                           P_create_launch_template(aws, name,
                               LtData(Latest, KEY_NAME(Latest), sg_id, "base64(nginx)")))>>
           lookup == <<Call("describe_launch_templates", name, NA, {}, TRUE, "", aws)>>
       IN \E k \in Cut(calls) :
            IF Completed(calls, k)
            THEN /\ Issue(calls, k)
                 /\ Return([ctx EXCEPT !.lt = aws.next])
            ELSE IF CodeAt(calls, k) \in reuse_codes(Latest, "create_launch_template")
            THEN \E j \in Cut(lookup) :
                    /\ aws' = aws
                    /\ log' = log \o Entries(calls, k) \o Entries(lookup, j)
                    /\ faults' = IF j < FirstBad(lookup) THEN faults + 1 ELSE faults
                    /\ IF Completed(lookup, j)
                       THEN Return([ctx EXCEPT !.lt = LtByName(aws, name)])
                       ELSE Raise(CodeAt(lookup, j))
            ELSE /\ Issue(calls, k)
                 /\ Raise(CodeAt(calls, k))
    /\ UNCHANGED <<script, run, pem, start, prev>>

\* create_load_balancer(subnet_ids, sg_id)
Latest_create_load_balancer ==
    /\ At(Latest, "create_load_balancer", "call")
    /\ LET sns == RangeOf(ctx.pubs)
           calls == <<Call("create_load_balancer", ALB_NAME(Latest), NA,
                           IdsOf(ctx.pubs) \cup {ctx.sg},
                           Ok_create_load_balancer(aws, ALB_NAME(Latest), sns, ctx.sg),
                           Err_create_load_balancer(aws, ALB_NAME(Latest)),
                           P_create_load_balancer(aws, ALB_NAME(Latest), sns, ctx.sg))>>
       IN \E k \in Cut(calls) : Finish(calls, k, [ctx EXCEPT !.alb = aws.next])
    /\ UNCHANGED <<script, run, pem, start, prev>>

\* create_target_group without its return statement: main() binds tg_arn to None
Latest_create_target_group_no_return ==
    /\ At(Latest, "create_target_group", "call")
    /\ LET calls == <<Call("create_target_group", TG_NAME(Latest), ctx.vpc, {ctx.vpc},
                           Ok_create_target_group(aws, TG_NAME(Latest), ctx.vpc),
                           Err_create_target_group(aws, TG_NAME(Latest)),
                           P_create_target_group(aws, TG_NAME(Latest), ctx.vpc))>>
       IN \E k \in Cut(calls) : Finish(calls, k, ctx)
    /\ UNCHANGED <<script, run, pem, start, prev>>

\* create_target_group(vpc_id)
Latest_create_target_group ==
    /\ At(Latest, "create_target_group", "call")
    /\ LET calls == <<Call("create_target_group", TG_NAME(Latest), ctx.vpc, {ctx.vpc},
                           Ok_create_target_group(aws, TG_NAME(Latest), ctx.vpc),
                           Err_create_target_group(aws, TG_NAME(Latest)),
                           P_create_target_group(aws, TG_NAME(Latest), ctx.vpc))>>
       IN \E k \in Cut(calls) : Finish(calls, k, [ctx EXCEPT !.tg = aws.next])
    /\ UNCHANGED <<script, run, pem, start, prev>>

\* create_listener(alb_arn, tg_arn)
Latest_create_listener ==
    /\ At(Latest, "create_listener", "call")
    /\ LET calls == <<Call("create_listener", ALB_NAME(Latest) \o ":80", NA, {ctx.alb, ctx.tg},
                           Ok_create_listener(aws, ctx.alb, ctx.tg),
                           Err_create_listener(aws, ctx.alb, ctx.tg),
                           P_create_listener(aws, ctx.alb, ctx.tg))>>
       IN \E k \in Cut(calls) : Finish(calls, k, ctx)
    /\ UNCHANGED <<script, run, pem, start, prev>>

\* main(): create_asg(lt_id, subnet_ids, tg_arn); TargetGroupARNs is
\* [target_group_arn] if target_group_arn else []
Latest_create_asg ==
    /\ At(Latest, "create_asg", "call")
    /\ LET sns == RangeOf(ctx.pubs)
           tgs == IF ctx.tg # NoId THEN {ctx.tg} ELSE {}
           calls == <<Call("create_auto_scaling_group", ASG_NAME(Latest), NA,
                           {ctx.lt} \cup tgs \cup IdsOf(ctx.pubs),
                           Ok_create_auto_scaling_group(aws, ASG_NAME(Latest), ctx.lt, sns, tgs),
                           Err_create_auto_scaling_group(aws, ASG_NAME(Latest)),
                           P_create_auto_scaling_group(aws, ASG_NAME(Latest), ctx.lt, sns, tgs))>>
       IN IF \/ ~Assigned("create_launch_template")
             \/ ~Assigned("create_subnets")
             \/ ~Assigned("create_target_group")
          THEN ArgumentError("UnboundLocalError")
          ELSE \E k \in Cut(calls) : Finish(calls, k, ctx)
    /\ UNCHANGED <<script, run, pem, start, prev>>

-----------------------------------------------------------------------------
(* infracreationWithALB.py *)

ALB == "infracreationWithALB"

\* create_vpc(), up to the waiter
ALB_create_vpc ==
    /\ At(ALB, "create_vpc", "call")
    /\ LET calls == <<Call("create_vpc", PROJECT(ALB) \o "-vpc", NA, {},
                           Ok_create_vpc(aws), "VpcLimitExceeded",
                           P_create_vpc(aws, VPC_CIDR(ALB)))>>
       IN \E k \in Cut(calls) :
            /\ Issue(calls, k)
            /\ IF ~Completed(calls, k) THEN Raise(CodeAt(calls, k))
               ELSE /\ phase' = "wait"
                    /\ wait' = [id |-> aws.next, n |-> 0]
                    /\ UNCHANGED <<ctx, pc, status, exc>>
    /\ UNCHANGED <<script, run, pem, start, prev>>

\* create_vpc(), after the waiter: tags, internet gateway, route table
ALB_create_vpc_network ==
    /\ At(ALB, "create_vpc", "resume")
    /\ LET vpc == wait.id
           s1 == P_tag_vpc(aws, vpc, PROJECT(ALB) \o "-vpc")
           igw == s1.next
           s2 == P_create_internet_gateway(s1)
           s3 == P_attach(s2, igw, vpc)
           route_table == s3.next
           s4 == P_create_route_table(s3, vpc)
           s5 == P_route_igw(s4, route_table, igw)
           calls ==
             <<Call("create_tags", PROJECT(ALB) \o "-vpc", vpc, {vpc},
                    vpc \in VpcIds(aws), "InvalidVpcID.NotFound", s1),
               Call("create_internet_gateway", PROJECT(ALB) \o "-igw", NA, {}, TRUE, "", s2),
               Call("attach_to_vpc", PROJECT(ALB) \o "-igw", vpc, {igw, vpc},
                    Ok_attach(s2, igw, vpc), Err_attach(s2, igw, vpc), s3),
               Call("create_route_table", PROJECT(ALB) \o "-rt", vpc, {vpc},
                    Ok_create_route_table(s3, vpc), "InvalidVpcID.NotFound", s4),
               Call("create_route", PROJECT(ALB) \o "-rt", NA, {route_table, igw},
                    Ok_route_igw(s4, route_table, igw), Err_route(s4, route_table), s5)>>
       IN \E k \in Cut(calls) :
            Finish(calls, k, [ctx EXCEPT !.vpc = vpc, !.rt = route_table])
    /\ UNCHANGED <<script, run, pem, start, prev>>

\* create_public_subnets: for subnet in [subnet1, subnet2]: associate, map public IPs
RECURSIVE ALB_subnet_loop(_, _, _, _)
ALB_subnet_loop(s, i, sids, rt) ==
    IF i > Len(sids) THEN <<>>
    ELSE LET s1 == P_associate(s, rt, sids[i])
             s2 == P_map_public(s1, sids[i])
         IN <<Call("associate_with_subnet", PROJECT(ALB) \o "-rt", NA, {rt, sids[i]},
                   Ok_associate(s, rt, sids[i]), Err_associate(s, rt, sids[i]), s1),
              Call("modify_subnet_attribute", PROJECT(ALB) \o "-subnet", NA, {sids[i]},
                   sids[i] \in Ids(s1.subnets), "InvalidSubnetID.NotFound", s2)>>
            \o ALB_subnet_loop(s2, i + 1, sids, rt)

\* create_public_subnets(vpc, route_table)
ALB_create_public_subnets ==
    /\ At(ALB, "create_public_subnets", "call")
    /\ LET body == TwoSubnets(aws, ALB, ctx.vpc)
           calls == body.calls \o ALB_subnet_loop(body.post, 1, body.ids, ctx.rt)
       IN \E k \in Cut(calls) : Finish(calls, k, [ctx EXCEPT !.pubs = body.ids])
    /\ UNCHANGED <<script, run, pem, start, prev>>

\* create_security_group(vpc)
ALB_create_security_group ==
    /\ At(ALB, "create_security_group", "call")
    /\ LET calls == OneSecurityGroup(aws, ALB, ctx.vpc)
       IN \E k \in Cut(calls) : Finish(calls, k, [ctx EXCEPT !.sg = aws.next])
    /\ UNCHANGED <<script, run, pem, start, prev>>

\* create_key_pair(): no except branch
ALB_create_key_pair ==
    /\ At(ALB, "create_key_pair", "call")
    /\ LET calls == <<Call("create_key_pair", KEY_NAME(ALB), NA, {},
                           Ok_create_key_pair(aws, KEY_NAME(ALB)), "InvalidKeyPair.Duplicate",
                           P_create_key_pair(aws, KEY_NAME(ALB)))>>
       IN \E k \in Cut(calls) :
            /\ Issue(calls, k)
            /\ IF Completed(calls, k)
               THEN pem' = TRUE /\ Return([ctx EXCEPT !.key = KEY_NAME(ALB)])
               ELSE IF CodeAt(calls, k) \in reuse_codes(ALB, "create_key_pair")
               THEN pem' = pem /\ Return([ctx EXCEPT !.key = KEY_NAME(ALB)])
               ELSE pem' = pem /\ Raise(CodeAt(calls, k))
    /\ UNCHANGED <<script, run, start, prev>>

\* create_launch_template(sg_id, key_name): the second definition replaces the first
ALB_create_launch_template ==
    /\ At(ALB, "create_launch_template", "call")
    /\ LET name == LAUNCH_TEMPLATE_NAME(ALB)
           calls == <<Call("create_launch_template", name, NA, {ctx.sg},
                           Ok_create_launch_template(aws, name),
                           "InvalidLaunchTemplateName.AlreadyExistsException",
                           P_create_launch_template(aws, name,
                               LtData(ALB, ctx.key, ctx.sg, "base64(nginx)")))>>
       IN \E k \in Cut(calls) : Finish(calls, k, [ctx EXCEPT !.lt = aws.next])
    /\ UNCHANGED <<script, run, pem, start, prev>>

\* create_auto_scaling_group(lt_id, subnet_ids): no target group is passed
ALB_create_auto_scaling_group ==
    /\ At(ALB, "create_auto_scaling_group", "call")
    /\ LET sns == RangeOf(ctx.pubs)
           calls == <<Call("create_auto_scaling_group", ASG_NAME(ALB), NA,
                           {ctx.lt} \cup IdsOf(ctx.pubs),
                           Ok_create_auto_scaling_group(aws, ASG_NAME(ALB), ctx.lt, sns, {}),
                           Err_create_auto_scaling_group(aws, ASG_NAME(ALB)),
                           P_create_auto_scaling_group(aws, ASG_NAME(ALB), ctx.lt, sns, {}))>>
       IN \E k \in Cut(calls) : Finish(calls, k, [ctx EXCEPT !.asg = ASG_NAME(ALB)])
    /\ UNCHANGED <<script, run, pem, start, prev>>

\* create_load_balancer_and_target_group(vpc_id, subnet_ids, sg_id)
ALB_create_load_balancer_and_target_group ==
    /\ At(ALB, "create_load_balancer_and_target_group", "call")
    /\ LET vpc_id == ctx.vpc
           sns == RangeOf(ctx.pubs)
           alb_arn == aws.next
           s1 == P_create_load_balancer(aws, ALB_NAME(ALB), sns, ctx.sg)
           tg_arn == s1.next
           s2 == P_create_target_group(s1, TG_NAME(ALB), vpc_id)
           listener_arn == s2.next
           s3 == P_create_listener(s2, alb_arn, tg_arn)
           calls ==
             <<Call("create_load_balancer", ALB_NAME(ALB), NA, IdsOf(ctx.pubs) \cup {ctx.sg},
                    Ok_create_load_balancer(aws, ALB_NAME(ALB), sns, ctx.sg),
                    Err_create_load_balancer(aws, ALB_NAME(ALB)), s1),
               Call("create_target_group", TG_NAME(ALB), vpc_id, {vpc_id},
                    Ok_create_target_group(s1, TG_NAME(ALB), vpc_id),
                    Err_create_target_group(s1, TG_NAME(ALB)), s2),
               Call("create_listener", ALB_NAME(ALB) \o ":80", NA, {alb_arn, tg_arn},
                    Ok_create_listener(s2, alb_arn, tg_arn),
                    Err_create_listener(s2, alb_arn, tg_arn), s3)>>
       IN \E k \in Cut(calls) :
            Finish(calls, k, [ctx EXCEPT !.alb = alb_arn, !.tg = tg_arn, !.lsn = listener_arn])
    /\ UNCHANGED <<script, run, pem, start, prev>>

-----------------------------------------------------------------------------
(* The environment: the provider finishes provisioning on its own time,    *)
(* and the operator starts main() again after a run has ended.  A state    *)
(* change of the provider is taken where a script can see it: while a      *)
(* waiter polls, and between two runs.                                     *)

vpc_becomes_available ==
    /\ status # "running" \/ phase = "wait"
    /\ \E i \in 1..Len(aws.vpcs) :
          /\ aws.vpcs[i].state = "pending"
          /\ aws' = [aws EXCEPT !.vpcs[i].state = "available"]
    /\ UNCHANGED <<script, run, pc, phase, status, ctx, log, wait, exc, pem, faults, start, prev>>

nat_settles ==
    /\ status = "running" /\ phase = "wait"
    /\ \E n \in aws.nats : \E st \in {"available", "failed"} :
          /\ n.state = "pending"
          /\ aws' = [aws EXCEPT !.nats = (@ \ {n}) \cup {[n EXCEPT !.state = st]}]
    /\ UNCHANGED <<script, run, pc, phase, status, ctx, log, wait, exc, pem, faults, start, prev>>

run_again ==
    /\ status \in {"done", "failed", "exited"}
    /\ run < MaxRuns
    /\ run' = run + 1
    /\ pc' = 1
    /\ phase' = "call"
    /\ status' = "running"
    /\ ctx' = EmptyCtx
    /\ log' = <<>>
    /\ wait' = NoWait
    /\ exc' = ""
    /\ pem' = FALSE
    /\ start' = aws
    /\ prev' = [status |-> status, exc |-> exc, ctx |-> ctx]
    /\ UNCHANGED <<script, aws, faults>>

-----------------------------------------------------------------------------
(* Initial states: a script about to run for the first time in an account  *)
(* that is empty, one VPC short of its quota or at its quota, in a region  *)
(* that offers one zone or three; the account at its quota may still hold *)
(* the scaling group of an earlier deployment.                             *)

DefaultVpc == [id |-> 1, isDefault |-> TRUE, state |-> "available",
               cidr |-> FOREIGN_CIDR, name |-> "default"]

OtherVpc(id, cidr) == [id |-> id, isDefault |-> FALSE, state |-> "available",
                       cidr |-> cidr, name |-> "other"]

\* n VPCs exist already: the default VPC, one VPC of block cidr (the script's own
\* block, as an earlier deployment leaves it, or a foreign one), and further VPCs
\* of foreign blocks
ExistingVpcs(n, cidr) ==
    [i \in 1..n |-> IF i = 1 THEN DefaultVpc
                    ELSE IF i = 2 THEN OtherVpc(i, cidr)
                    ELSE OtherVpc(i, FOREIGN_CIDR)]

Account(n, cidr, zones) ==
    [next |-> n + 1, azs |-> SubSeq(AllZones, 1, zones), vpcs |-> ExistingVpcs(n, cidr),
     igws |-> {}, subnets |-> {}, rts |-> {}, eips |-> {}, nats |-> {}, sgs |-> {},
     keys |-> {}, lts |-> {}, albs |-> {}, tgs |-> {}, lsns |-> {}, asgs |-> {}]

\* the account still holds a scaling group of the project's name from an earlier
\* deployment; the template, subnet and target group it names have been deleted
Leftover(acct, s) ==
    [acct EXCEPT !.next = @ + 3,
                 !.asgs = {[name |-> ASG_NAME(s), lt |-> acct.next,
                            subnets |-> {acct.next + 1}, tgs |-> {acct.next + 2}]}]

NoPrev == [status |-> "none", exc |-> "", ctx |-> EmptyCtx]

Init ==
    /\ script \in Scripts
    /\ \E n \in {0, VpcLimit - 1, VpcLimit} : \E cidr \in {FOREIGN_CIDR, VPC_CIDR(script)} :
       \E zones \in {1, Len(AllZones)} :
          /\ (n < 2 => cidr = FOREIGN_CIDR)
          /\ \/ aws = Account(n, cidr, zones)
             \/ /\ n = VpcLimit
                /\ cidr = VPC_CIDR(script)
                /\ zones > 1
                /\ aws = Leftover(Account(n, cidr, zones), script)
    /\ run = 1
    /\ pc = 1
    /\ phase = "call"
    /\ status = "running"
    /\ ctx = EmptyCtx
    /\ log = <<>>
    /\ wait = NoWait
    /\ exc = ""
    /\ pem = FALSE
    /\ faults = 0
    /\ start = aws
    /\ prev = NoPrev

Next ==
    \/ NAT_choose_azs
    \/ NAT_create_vpc
    \/ wait_until_available
    \/ NAT_create_vpc_tags
    \/ NAT_create_igw_and_route_table
    \/ NAT_create_subnets
    \/ NAT_create_nat_and_private_route
    \/ nat_gateway_available
    \/ NAT_create_private_route
    \/ NAT_associate_route_table
    \/ NAT_create_security_groups
    \/ NAT_create_keypair
    \/ NAT_create_launch_template
    \/ NAT_create_alb_and_tg
    \/ NAT_create_auto_scaling_group
    \/ Latest_create_vpc
    \/ Latest_create_vpc_tags
    \/ Latest_create_internet_gateway
    \/ Latest_create_subnets
    \/ Latest_create_route_table
    \/ Latest_create_security_group
    \/ Latest_create_key_pair
    \/ Latest_create_launch_template
    \/ Latest_create_load_balancer
    \/ Latest_create_target_group
    \/ Latest_create_listener
    \/ Latest_create_asg
    \/ ALB_create_vpc
    \/ ALB_create_vpc_network
    \/ ALB_create_public_subnets
    \/ ALB_create_security_group
    \/ ALB_create_key_pair
    \/ ALB_create_launch_template
    \/ ALB_create_auto_scaling_group
    \/ ALB_create_load_balancer_and_target_group
    \/ vpc_becomes_available
    \/ nat_settles
    \/ run_again

Spec == Init /\ [][Next]_vars

\* a waiter that blocks the script is a loop of the running process: it keeps polling
FairSpec == Spec /\ WF_vars(wait_until_available) /\ WF_vars(nat_gateway_available)

-----------------------------------------------------------------------------
(* Properties *)

Ended == status # "running"

\* provider operations that create a resource
CreationOps ==
    {"create_vpc", "create_internet_gateway", "create_subnet", "create_route_table",
     "allocate_address", "create_nat_gateway", "create_security_group", "create_key_pair",
     "create_launch_template", "create_load_balancer", "create_target_group",
     "create_listener", "create_auto_scaling_group"}

Issued(op) == {i \in 1..Len(log) : log[i].op = op}

AtMostOne(set) == Cardinality(set) <= 1

\* the account holds no second resource under a logical name of the project
NoDuplicates(s) ==
    /\ AtMostOne({i \in 1..Len(s.vpcs) : s.vpcs[i].name = PROJECT(NAT) \o "-vpc"})
    /\ AtMostOne(s.igws)
    /\ \A c \in RangeOf(PUBLIC_SUBNET_CIDRS(NAT)) \cup RangeOf(PRIVATE_SUBNET_CIDRS) :
          AtMostOne({x \in s.subnets : x.cidr = c})
    /\ AtMostOne({r \in s.rts : r.gw # NoId})
    /\ AtMostOne({r \in s.rts : r.gw = NoId})
    /\ AtMostOne(s.nats)
    /\ \A name \in {PROJECT(NAT) \o "-alb-sg", PROJECT(NAT) \o "-ec2-sg"} :
          AtMostOne({g \in s.sgs : g.name = name})
    /\ AtMostOne(s.lts) /\ AtMostOne(s.albs) /\ AtMostOne(s.tgs)
    /\ AtMostOne(s.lsns) /\ AtMostOne(s.asgs)

\* C1: a second run of infrawithNAT.py after a completed first run binds the
\* identifiers the first run bound and leaves at most one resource per logical name.
C1_SecondRunIdempotent ==
    (script = NAT /\ run = 2 /\ prev.status = "done")
        => /\ NoDuplicates(aws)
           /\ status = "done" => ctx = prev.ctx

\* error codes by which the provider refuses to create a name that exists
NameExistsCodes ==
    {"InvalidGroup.Duplicate", "InvalidKeyPair.Duplicate",
     "InvalidLaunchTemplateName.AlreadyExistsException", "DuplicateLoadBalancerName",
     "DuplicateTargetGroupName", "AlreadyExists"}

\* C2: a run started again after an earlier run ended (completed or stopped part-way)
\* never ends with the provider's refusal to create a name that already exists.
C2_RetryDoesNotFailOnExistingName ==
    (run >= 2 /\ status = "failed") => exc \notin NameExistsCodes

\* C3: every provider call a run has issued was given bound identifiers only: no
\* parameter is an unbound variable, each is an identifier the provider has issued.
C3_InputsBound ==
    \A i \in 1..Len(log) :
        /\ log[i].vpc # NoId
        /\ \A a \in log[i].args : a # NoId /\ a < aws.next
        /\ log[i].vpc # NA => log[i].vpc < aws.next

\* C3 happens: a run went through every statement of main(), the last creation
\* calls taking the launch template, the subnets and the target group
C3_Witness ==
    /\ status = "done"
    /\ script = NAT
    /\ Issued("create_listener") # {}
    /\ Issued("create_auto_scaling_group") # {}


\* the calls this step issues
NewCalls == {i \in 1..Len(log') : i > Len(log)}

\* C4: a call that takes the VPC is issued only while the VPC is available, and the
\* route to the NAT gateway is created only while the NAT gateway is available.
C4_ReadyBeforeUse ==
    [][\A i \in NewCalls :
          /\ log'[i].vpc \notin {NA, NoId} => VpcState(aws, log'[i].vpc) = "available"
          /\ log'[i].op = "create_route" =>
                \A a \in log'[i].args \cap Ids(aws.nats) : NatState(aws, a) = "available"
      ]_vars

Waiting == status = "running" /\ phase = "wait"

WaitedOn ==
    IF Main(script)[pc] = "create_vpc"
    THEN VpcState(aws, wait.id) ELSE NatState(aws, wait.id)

\* the describe call of the poll this step makes was answered
Answered == log'[Len(log')].res = "ok"

\* a poll as the claim words it: the wait returns exactly when the resource is
\* available, and a wait that ends otherwise ends because the budget is used up
TimeoutOnlyPollStep ==
    (Waiting /\ NewCalls # {}) =>
        /\ wait.n < WaitBudget
        /\ phase' = "resume" <=> WaitedOn = "available"
        /\ phase' = "resume" => status' = "running"
        /\ phase' # "resume" =>
              \/ status' = "running" /\ wait'.n < WaitBudget
              \/ status' = "failed" /\ exc' = "WaiterError" /\ wait'.n = WaitBudget

PollStep ==
    (Waiting /\ NewCalls # {}) =>
        /\ wait.n < WaitBudget
        /\ wait'.n = wait.n + 1
        /\ phase' = "resume" <=> (Answered /\ WaitedOn = "available")
        /\ phase' = "resume" => status' = "running"
        /\ status' = "failed" <=>
              \/ ~Answered
              \/ WaitedOn = "failed"
              \/ WaitedOn # "available" /\ wait'.n = WaitBudget
        /\ status' = "failed" => exc' = "WaiterError" /\ phase' = "wait" /\ pc' = pc
        /\ status' \in {"running", "failed"}

\* a run the waiter has failed issues no further call
AbortedStays ==
    (status = "failed" /\ exc = "WaiterError" /\ run' = run) => UNCHANGED <<log, status>>

C6_Eligible(op) ==
    CASE op = "create_vpc" -> {"VpcLimitExceeded"}
      [] op = "create_key_pair" -> {"InvalidKeyPair.Duplicate"}
      [] op = "create_launch_template" -> {"InvalidLaunchTemplateName.AlreadyExistsException"}
      [] op = "create_auto_scaling_group" -> {"AlreadyExists"}
      [] OTHER -> {}

\* C6: a provider call that failed with any other code is the last call of its run,
\* and the run ended as failed (it does not report completion).
C6_OtherErrorsAreFatal ==
    \A i \in 1..Len(log) :
        (log[i].res # "ok" /\ log[i].res \notin C6_Eligible(log[i].op))
            => (i = Len(log) /\ status = "failed")

\* C6 happens: a run that had recovered from an eligible error of one call was
\* stopped by an unrelated error of a later call
C6_Witness ==
    /\ status = "failed"
    /\ exc = UNRELATED
    /\ log # <<>>
    /\ log[Len(log)].res = UNRELATED
    /\ \E i \in 1..(Len(log) - 1) : log[i].res \in C6_Eligible(log[i].op)

\* C7: with fewer than 2 zones main() of infrawithNAT.py ends without completing and
\* without a creation call: the account is as it was when the run started.
C7_TooFewZones ==
    (script = NAT /\ Len(aws.azs) < 2)
        => /\ status # "done"
           /\ aws = start
           /\ \A i \in 1..Len(log) : log[i].op \notin CreationOps
           /\ Ended => status \in {"exited", "failed"}

\* C7 happens: the zone check ended the run
C7_Witness == script = NAT /\ Len(aws.azs) < 2 /\ status = "exited" /\ exc = "SystemExit"

\* the run took the except branch of create_vpc and its lookup was answered
ReusedVpc ==
    /\ script = NAT
    /\ \E i \in 1..(Len(log) - 1) :
          /\ log[i].op = "create_vpc"
          /\ log[i].res = "VpcLimitExceeded"
          /\ log[i + 1].res = "ok"
    /\ \E j \in 1..Len(start.vpcs) : ~start.vpcs[j].isDefault

\* C8: after VpcLimitExceeded with a non-default VPC present the run goes on past
\* create_vpc with one of the existing non-default VPCs, creates no VPC, and every
\* later call that takes a VPC is given that VPC.
C8_ReuseExistingVpc ==
    ReusedVpc
        => /\ pc > 2
           /\ \E j \in 1..Len(start.vpcs) :
                 start.vpcs[j].id = ctx.vpc /\ ~start.vpcs[j].isDefault
           /\ Len(aws.vpcs) = Len(start.vpcs)
           /\ \A i \in 1..Len(log) : log[i].vpc # NA => log[i].vpc = ctx.vpc

\* C8 happens: a run on a reused VPC went through all its steps
C8_Witness ==
    /\ ReusedVpc
    /\ status = "done"
    /\ Issued("create_target_group") # {}

\* the key pair existed when the run started and the run reached the key-pair step
KeyExisted == KEY_NAME(script) \in start.keys /\ Issued("create_key_pair") # {}

\* C9: when the key pair exists already, the key-pair step does not end the run, no
\* key file is written, and a launch template created afterwards names the key.
C9_KeyPairReused ==
    KeyExisted
        => /\ ~pem
           /\ exc # "InvalidKeyPair.Duplicate"
           /\ \A t \in aws.lts \ start.lts : t.data.key = KEY_NAME(script)

\* C10: the port-80 ingress rule of the security group a launch template attaches
\* has the load balancer's security group as its source, never 0.0.0.0/0.
C10_HttpOnlyFromBalancer ==
    \A t \in aws.lts : \A g \in aws.sgs :
        g.id = t.data.sg =>
            \A r \in g.rules :
                r.port = HTTP =>
                    /\ r.kind = "sg"
                    /\ r.cidr # OPEN_CIDR
                    /\ \A b \in aws.albs : b.sg \in Ids(aws.sgs) /\ Rec(aws.sgs, b.sg).vpc = g.vpc
                                               => r.sg = b.sg

\* the resources of a kind the current run has added to the account
NewSubnets == {x \in aws.subnets : x.id \notin Ids(start.subnets)}
NewNats == {n \in aws.nats : n.id \notin Ids(start.nats)}

\* C11: a completed run of infrawithNAT.py over 2 zones has created exactly 2 public
\* subnets, 2 private subnets and 1 NAT gateway; each public subnet is associated with
\* the public route table and each private subnet with the private route table.
C11_TopologyCounts ==
    (script = NAT /\ status = "done" /\ Len(ctx.azs) = 2)
        => /\ Cardinality(RangeOf(ctx.pubs)) = 2
           /\ Cardinality(RangeOf(ctx.privs)) = 2
           /\ Ids(NewSubnets) = RangeOf(ctx.pubs) \cup RangeOf(ctx.privs)
           /\ Cardinality(NewSubnets) = 4
           /\ Cardinality(NewNats) = 1
           /\ ctx.rt # ctx.priv_rt
           /\ \A x \in NewSubnets :
                 /\ x.id \in RangeOf(ctx.pubs) => x.rt = ctx.rt
                 /\ x.id \in RangeOf(ctx.privs) => x.rt = ctx.priv_rt

\* C11 happens: a run of infrawithNAT.py over 2 zones completed
C11_Witness ==
    /\ script = NAT
    /\ status = "done"
    /\ Len(ctx.azs) = 2
    /\ Cardinality(NewSubnets) = 4

NewIgws == {g \in aws.igws : g.id \notin Ids(start.igws)}

\* C12: after a completed run of any script, each subnet the run created for public
\* use is associated with a route table whose default route goes to the internet
\* gateway created in that run.
C12_PublicSubnetsRouted ==
    status = "done"
        => \A id \in RangeOf(ctx.pubs) :
              /\ id \in Ids(aws.subnets)
              /\ Rec(aws.subnets, id).rt \in Ids(aws.rts)
              /\ Rec(aws.rts, Rec(aws.subnets, id).rt).gw \in Ids(NewIgws)

\* call i of the run's log was preceded by an accepted call of one of the operations
Preceded(i, ops) == \E j \in 1..(i - 1) : log[j].op \in ops /\ log[j].res = "ok"

\* C13: in any script the scaling group is created only after the launch template
\* (created or found) and the target group of the run, and the scaling group the
\* call creates is attached to that target group.
C13_ScalingGroupLast ==
    \A i \in Issued("create_auto_scaling_group") :
        /\ Preceded(i, {"create_launch_template", "describe_launch_templates"})
        /\ Preceded(i, {"create_target_group"})
        /\ log[i].res = "ok" =>
              \A g \in aws.asgs :
                  g.name = ASG_NAME(script) => ctx.tg # NoId /\ g.tgs = {ctx.tg}

\* C14: within one run no creation operation is invoked twice for the same logical
\* name, whether the calls succeed, fail, or end in the reuse of an existing resource.
C14_OneCreationPerName ==
    \A i \in 1..Len(log) : \A j \in 1..Len(log) :
        (i < j /\ log[i].op \in CreationOps /\ log[i].op = log[j].op)
            => log[i].name # log[j].name

\* C14 happens: a run that found its launch template by name and reused it completed
C14_Witness ==
    /\ status = "done"
    /\ \E i \in Issued("create_launch_template") :
          log[i].res = "InvalidLaunchTemplateName.AlreadyExistsException"
    /\ Issued("create_auto_scaling_group") # {}

\* the run took the except branch of create_launch_template and went on
LtReused ==
    /\ script \in {NAT, Latest}
    /\ \E i \in Issued("create_launch_template") :
          /\ log[i].res = "InvalidLaunchTemplateName.AlreadyExistsException"
          /\ ctx.lt # NoId

\* C15: when the launch template exists by name, create_launch_template binds the
\* identifier of that template and the template is stored as it was before the run.
C15_LaunchTemplateReusedAsIs ==
    LtReused =>
        \E t \in start.lts :
            /\ t.name = LAUNCH_TEMPLATE_NAME(script)
            /\ ctx.lt = t.id
            /\ t \in aws.lts
            /\ Ids(aws.lts) = Ids(start.lts)

\* C15 happens: the template was reused by a run that asked for another security group
C15_Witness ==
    /\ LtReused
    /\ \E t \in aws.lts : t.id = ctx.lt /\ t.data.sg # ctx.sg

\* C16: in infrawithNAT.py the subnets of the i-th selected zone get the i-th public
\* and the i-th private CIDR: the zones selected never outnumber the configured
\* CIDRs, and no two subnets a run creates have the same CIDR.
C16_PositionalCidrs ==
    script = NAT =>
        /\ Len(ctx.azs) <= Len(PUBLIC_SUBNET_CIDRS(NAT))
        /\ Len(ctx.azs) <= Len(PRIVATE_SUBNET_CIDRS)
        /\ \A i \in 1..Len(log) : log[i].res # "IndexError"
        /\ \A x \in NewSubnets :
              \E i \in 1..Len(ctx.azs) :
                  /\ x.az = ctx.azs[i]
                  /\ x.cidr \in {PUBLIC_SUBNET_CIDRS(NAT)[i], PRIVATE_SUBNET_CIDRS[i]}
                  /\ x.mapPublic => x.cidr = PUBLIC_SUBNET_CIDRS(NAT)[i]
        /\ \A x \in NewSubnets : \A y \in NewSubnets : x.id # y.id => x.cidr # y.cidr
        /\ \A i \in 1..Len(ctx.pubs) :
              /\ Rec(aws.subnets, ctx.pubs[i]).cidr = PUBLIC_SUBNET_CIDRS(NAT)[i]
              /\ Rec(aws.subnets, ctx.pubs[i]).az = ctx.azs[i]
        /\ \A i \in 1..Len(ctx.privs) :
              /\ Rec(aws.subnets, ctx.privs[i]).cidr = PRIVATE_SUBNET_CIDRS[i]
              /\ Rec(aws.subnets, ctx.privs[i]).az = ctx.azs[i]

\* C16 happens: create_subnets went through both selected zones
C16_Witness ==
    /\ script = NAT
    /\ Len(ctx.azs) = 2
    /\ Len(ctx.pubs) = 2
    /\ Len(ctx.privs) = 2
    /\ Cardinality(NewSubnets) = 4

\* create_vpc of the run returned a VPC that existed before the run
VpcTakenOver == ctx.vpc # NoId /\ ctx.vpc \in VpcIds(start)

\* C17: the VPC that create_vpc of infrawithNAT.py or of infraLatest.py returns on
\* its reuse path is never the default VPC of the account.
C17_ReusedVpcNotDefault ==
    (script \in {NAT, Latest} /\ VpcTakenOver) => ~VpcRec(aws, ctx.vpc).isDefault

\* the scaling-group call of the run was refused because the group exists
AsgExisted ==
    \E i \in Issued("create_auto_scaling_group") : log[i].res = "AlreadyExists"

\* C18: when create_auto_scaling_group of infrawithNAT.py is refused with
\* AlreadyExists the run completes, the account holds one scaling group of that name,
\* and that group is attached to the run's target group and uses the run's template.
C18_ExistingScalingGroup ==
    (script = NAT /\ AsgExisted)
        => /\ status = "done"
           /\ Cardinality({g \in aws.asgs : g.name = ASG_NAME(NAT)}) = 1
           /\ \A g \in aws.asgs :
                 g.name = ASG_NAME(NAT) => g.tgs = {ctx.tg} /\ g.lt = ctx.lt

\* C19: after a completed run of infrawithNAT.py the launch template handed to the
\* scaling-group call lists the instances' security group created in that run.
C19_TemplateUsesRunGroup ==
    (script = NAT /\ status = "done")
        => /\ ctx.lt \in Ids(aws.lts)
           /\ ctx.sg \notin Ids(start.sgs)
           /\ Rec(aws.lts, ctx.lt).data.sg = ctx.sg

\* subnet sn is, in account s, associated with the run's public route table, whose
\* default route goes to an internet gateway attached to the run's VPC
RoutedToInternet(s, sn) ==
    /\ sn \in Ids(s.subnets)
    /\ Rec(s.subnets, sn).rt = ctx.rt
    /\ ctx.rt \in Ids(s.rts)
    /\ Rec(s.rts, ctx.rt).gw \in Ids(s.igws)
    /\ Rec(s.igws, Rec(s.rts, ctx.rt).gw).vpc = ctx.vpc

\* C20: a step of infrawithNAT.py that creates a NAT gateway places it in the public
\* subnet of the first selected zone, and before that step the subnet is associated
\* with the public route table that routes 0.0.0.0/0 to the VPC's internet gateway.
C20_NatInFirstPublicSubnet ==
    [][script = NAT =>
          \A n \in aws'.nats :
              n.id \notin Ids(aws.nats) =>
                  /\ ctx.pubs # <<>>
                  /\ n.subnet = ctx.pubs[1]
                  /\ n.subnet \in Ids(aws.subnets)
                  /\ Rec(aws.subnets, n.subnet).az = ctx.azs[1]
                  /\ Rec(aws.subnets, n.subnet).vpc = ctx.vpc
                  /\ RoutedToInternet(aws, n.subnet)
      ]_vars

\* C20 happens: the run has created its NAT gateway in a subnet of the run
C20_Witness ==
    /\ script = NAT
    /\ Len(ctx.pubs) = 2
    /\ \E n \in NewNats : n.subnet \in RangeOf(ctx.pubs)

\* the private subnets of the project in account s: those with a private CIDR
PrivateSubnets(s) == {x \in s.subnets : x.cidr \in RangeOf(PRIVATE_SUBNET_CIDRS)}

\* the scaling-group step of the run has been taken: the group was created, or the
\* provider answered that it exists already and the step went on
AsgStepTaken ==
    \E i \in Issued("create_auto_scaling_group") : log[i].res \in {"ok", "AlreadyExists"}

\* C21: in every state of a run of infrawithNAT.py no private subnet has
\* public-IP-on-launch, a private subnet's route table has no route to an internet
\* gateway and its default route goes to a NAT gateway, and once the scaling-group
\* step is taken the scaling group named ASG_NAME is placed in private subnets only.
C21_PrivateSubnetsIsolated ==
    script = NAT =>
        /\ \A x \in PrivateSubnets(aws) :
              /\ ~x.mapPublic
              /\ x.rt # NoId =>
                    /\ x.rt \in Ids(aws.rts)
                    /\ Rec(aws.rts, x.rt).gw = NoId
                    /\ Rec(aws.rts, x.rt).nat \in Ids(aws.nats)
        /\ AsgStepTaken =>
              \A g \in aws.asgs :
                  g.name = ASG_NAME(NAT) =>
                      /\ g.subnets # {}
                      /\ g.subnets \subseteq Ids(PrivateSubnets(aws))

====
